---- MODULE Spec2Model ----
(***************************************************************************)
(* Model of src/src/TSP.c: the edge-list parser of main(), the memoised    *)
(* bitmask recursion tsp_dp() and the report/reconstruction walk of        *)
(* solve_tsp().                                                            *)
(*                                                                         *)
(* uint64_t values are represented by their residue modulo 2^64 taken in   *)
(* a window around 0: 0, 1, 2, ... stand for themselves and -k stands for  *)
(* 2^64 - k, so UINT64_MAX is -1.  Addition of residues is addition modulo *)
(* 2^64 as long as the representatives stay small, which the bounded       *)
(* inputs guarantee; unsigned comparison is ULess.                         *)
(***************************************************************************)
EXTENDS Integers, Sequences, FiniteSets, TLC

VARIABLES file, input, cities, city_count, di, pc, exit_code, out, err,
          tables, dp, next_city, result, current, visited, total_cost,
          loops, writes, adds, oob

vars == <<file, input, cities, city_count, di, pc, exit_code, out, err,
          tables, dp, next_city, result, current, visited, total_cost,
          loops, writes, adds, oob>>

\* ------------------------------------------------------------------ bounds
\* number of distinct city names in the enumerated graph files
NumNames == 4
\* the enumerated graph files have at most MaxLines lines
MaxLines == 5
\* the costs in the enumerated files of complete graphs are 0..MaxDist
MaxDist == 1

\* --------------------------------------------------------- program constants
MAX_CITIES == 64
NO_PATH == -1
LINE_SIZE == 100
NAME_WIDTH == 511

\* ------------------------------------------------------- uint64_t arithmetic
\* a + b modulo 2^64 on window representatives
U64Add(a, b) == a + b

\* a < b as unsigned 64-bit values: representatives below 0 are the large ones
ULess(a, b) == IF (a < 0) = (b < 0) THEN a < b ELSE b < 0

\* 1ULL << k
Bit(k) == 2 ^ k

\* visited & (1ULL << k)
HasBit(mask, k) == (mask \div Bit(k)) % 2 = 1

\* visited | (1ULL << k)
SetBit(mask, k) == IF HasBit(mask, k) THEN mask ELSE mask + Bit(k)

\* ------------------------------------------------------------ text of a file
Letters == <<"A", "B", "C", "D", "E">>
DigitChars == <<"0", "1", "2", "3", "4", "5", "6", "7", "8", "9">>
WhiteSpace == {" ", "\n"}

IsDigit(c) == \E k \in 1..10 : DigitChars[k] = c
DigitVal(c) == (CHOOSE k \in 1..10 : DigitChars[k] = c) - 1

RECURSIVE Decimal(_)
Decimal(n) == IF n < 10 THEN <<DigitChars[n + 1]>>
              ELSE Decimal(n \div 10) \o <<DigitChars[(n % 10) + 1]>>

\* one line of the input file, "a-b: d" and its newline
EdgeLine(a, b, d) == a \o <<"-">> \o b \o <<":", " ">> \o Decimal(d) \o <<"\n">>

\* --------------------------------------------------------------- fgets
\* fgets(line, sizeof(line), file): at most LINE_SIZE - 1 characters of the
\* first line; what does not fit stays in the file as the next line
Fgets(f) ==
    LET l == Head(f) IN
    IF Len(l) <= LINE_SIZE - 1
    THEN [line |-> l, rest |-> Tail(f)]
    ELSE [line |-> SubSeq(l, 1, LINE_SIZE - 1),
          rest |-> <<SubSeq(l, LINE_SIZE, Len(l))>> \o Tail(f)]

\* --------------------------------------------------------------- sscanf
\* number of characters from position i on that are not in stop, at most width
RECURSIVE Span(_, _, _, _)
Span(s, i, stop, width) ==
    IF width = 0 \/ i > Len(s) \/ s[i] \in stop THEN 0
    ELSE 1 + Span(s, i + 1, stop, width - 1)

RECURSIVE SkipSpace(_, _)
SkipSpace(s, i) == IF i <= Len(s) /\ s[i] \in WhiteSpace THEN SkipSpace(s, i + 1) ELSE i

RECURSIVE DigitRun(_, _)
DigitRun(s, i) == IF i <= Len(s) /\ IsDigit(s[i]) THEN 1 + DigitRun(s, i + 1) ELSE 0

RECURSIVE DigitsValue(_, _, _, _)
DigitsValue(s, i, n, acc) ==
    IF n = 0 THEN acc ELSE DigitsValue(s, i + 1, n - 1, acc * 10 + DigitVal(s[i]))

\* sscanf(line, "%511[^-]-%511[^:]: %" SCNu64, city1, city2, &distance):
\* the number of conversions made and the converted fields
Sscanf(s) ==
    LET n1 == Span(s, 1, {"-"}, NAME_WIDTH)
        p1 == 1 + n1
        n2 == Span(s, p1 + 1, {":"}, NAME_WIDTH)
        p2 == p1 + 1 + n2
        p3 == SkipSpace(s, p2 + 1)
        neg == p3 <= Len(s) /\ s[p3] = "-"
        pos == p3 <= Len(s) /\ s[p3] = "+"
        p4 == IF neg \/ pos THEN p3 + 1 ELSE p3
        nd == DigitRun(s, p4)
        v == DigitsValue(s, p4, nd, 0)
        none == [count |-> 0, city1 |-> <<>>, city2 |-> <<>>, distance |-> 0]
    IN
    IF n1 = 0 THEN none
    ELSE IF p1 > Len(s) \/ s[p1] # "-" \/ n2 = 0
         THEN [none EXCEPT !.count = 1, !.city1 = SubSeq(s, 1, n1)]
    ELSE IF p2 > Len(s) \/ s[p2] # ":" \/ nd = 0
         THEN [none EXCEPT !.count = 2, !.city1 = SubSeq(s, 1, n1),
                           !.city2 = SubSeq(s, p1 + 1, p1 + n2)]
    ELSE [count |-> 3, city1 |-> SubSeq(s, 1, n1),
          city2 |-> SubSeq(s, p1 + 1, p1 + n2),
          distance |-> IF neg THEN 0 - v ELSE v]

\* ------------------------------------------------------------ the registry
\* get_city_index: the first index holding the name, or -1
get_city_index(cs, count, name) ==
    IF \E i \in 0..(count - 1) : cs[i] = name
    THEN CHOOSE i \in 0..(count - 1) :
            cs[i] = name /\ \A j \in 0..(i - 1) : cs[j] # name
    ELSE -1

\* cities[count] = malloc(..); strcpy(cities[count], name)
StoreCity(cs, count, name) ==
    [i \in 0..count |-> IF i < count THEN cs[i] ELSE name]

\* di[i][j]: every entry starts at NO_PATH; di holds the entries written since
Di(d, i, j) == IF <<i, j>> \in DOMAIN d THEN d[<<i, j>>] ELSE NO_PATH

\* di[i][j] = distance; di[j][i] = distance
SetEdge(d, i, j, distance) ==
    [p \in DOMAIN d \cup {<<i, j>>, <<j, i>>} |->
        IF p = <<i, j>> \/ p = <<j, i>> THEN distance ELSE d[p]]

\* ------------------------------------------------------- memo / choice table
\* dp[c][v]: every entry starts at NO_PATH (line 105)
Dp(m, c, v) == IF <<c, v>> \in DOMAIN m THEN m[<<c, v>>] ELSE NO_PATH

\* next_city[c][v]: every entry starts at -1 (line 107)
NextCity(m, c, v) == IF <<c, v>> \in DOMAIN m THEN m[<<c, v>>] ELSE -1

\* table[c][v] = x
Store(m, c, v, x) == [p \in DOMAIN m \cup {<<c, v>>} |-> IF p = <<c, v>> THEN x ELSE m[p]]

\* instrumentation: how often something happened at a state (c, v)
Count(m, c, v) == IF <<c, v>> \in DOMAIN m THEN m[<<c, v>>] ELSE 0

EmptyMap == [p \in {} |-> 0]

\* the tables of one solve_tsp call right after their allocation, with the
\* instrumentation: loops counts the executions of the candidate loop of a
\* state, writes counts the stores into its dp entry, adds records the
\* operands of every addition of line 60-67
FreshTables == [dp |-> EmptyMap, next_city |-> EmptyMap,
                loops |-> EmptyMap, writes |-> EmptyMap, adds |-> {}]

\* (1ULL << city_count) - 1
FullMask(count) == Bit(count) - 1

\* the test of line 55-57 without its look at the distance matrix
IsCandidateAnyEdge(d, cur, vis, next) == ~HasBit(vis, next)

\* the test of line 55-57
IsCandidate(d, cur, vis, next) == ~HasBit(vis, next) /\ Di(d, cur, next) # NO_PATH

\* the test of line 42
IsMemoised(t, cur, vis) == Dp(t.dp, cur, vis) # NO_PATH

\* the test of line 72 with <= for <
ImprovesOrTies(cost, min_cost) == ~ULess(min_cost, cost)

\* the test of line 72
Improves(cost, min_cost) == ULess(cost, min_cost)

RECURSIVE tsp_dp(_, _, _, _, _)
RECURSIVE CandidateLoop(_, _, _, _, _, _, _, _)

\* the for loop of line 52-77, from index next on, with the running min_cost
\* and best_next_city; t is the tables as the recursive calls have left them
CandidateLoop(next, min_cost, best, cur, vis, count, d, t) ==
    IF next >= count THEN [min_cost |-> min_cost, best |-> best, t |-> t]
    ELSE IF IsCandidate(d, cur, vis, next)
    THEN LET sub == tsp_dp(next, SetBit(vis, next), count, d, t)
             cost == U64Add(Di(d, cur, next), sub.ret)
             t2 == [sub.t EXCEPT !.adds = @ \cup
                      {[current |-> cur, visited |-> vis, next |-> next,
                        edge |-> Di(d, cur, next), sub |-> sub.ret]}]
         IN IF Improves(cost, min_cost)
            THEN CandidateLoop(next + 1, cost, next, cur, vis, count, d, t2)
            ELSE CandidateLoop(next + 1, min_cost, best, cur, vis, count, d, t2)
    ELSE CandidateLoop(next + 1, min_cost, best, cur, vis, count, d, t)

\* tsp_dp(current, visited, city_count, di, dp, next_city): the value returned
\* and the tables after the call
tsp_dp(cur, vis, count, d, t) ==
    IF vis = FullMask(count) THEN [ret |-> 0, t |-> t]
    ELSE IF IsMemoised(t, cur, vis) THEN [ret |-> Dp(t.dp, cur, vis), t |-> t]
    ELSE LET t1 == [t EXCEPT !.loops = Store(@, cur, vis, Count(@, cur, vis) + 1)]
             r == CandidateLoop(0, NO_PATH, -1, cur, vis, count, d, t1)
             t3 == [r.t EXCEPT !.dp = Store(@, cur, vis, r.min_cost),
                               !.next_city = Store(@, cur, vis, r.best),
                               !.writes = Store(@, cur, vis, Count(@, cur, vis) + 1)]
         IN [ret |-> r.min_cost, t |-> t3]

\* ------------------------------------------------------------- input files
Name(i) == <<Letters[i]>>

\* the lines "Li-Lj: f[i,j]" in the order of the pairs (i, j), i < j, for the
\* pairs f gives a cost; -1 leaves the pair out of the file
RECURSIVE GraphRows(_, _, _, _)
GraphRows(i, j, n, f) ==
    IF i >= n THEN <<>>
    ELSE IF j > n THEN GraphRows(i + 1, i + 2, n, f)
    ELSE (IF f[<<i, j>>] = -1 THEN <<>> ELSE <<EdgeLine(Name(i), Name(j), f[<<i, j>>])>>)
         \o GraphRows(i, j + 1, n, f)

PairsOf(n) == {p \in (1..n) \X (1..n) : p[1] < p[2]}

\* the files of at most MaxLines lines over NumNames names, with costs 0 and 1
GraphFiles ==
    {GraphRows(1, 2, NumNames, f) :
        f \in {g \in [PairsOf(NumNames) -> {-1, 0, 1}] :
                  Cardinality({p \in PairsOf(NumNames) : g[p] # -1}) <= MaxLines}}

\* the files with a line for every pair of four names, with costs 0..MaxDist
CompleteFiles == {GraphRows(1, 2, 4, f) : f \in [PairsOf(4) -> 0..MaxDist]}

\* the two scenarios of the specification's section 8
ScenarioOne == <<EdgeLine(Name(1), Name(2), 5), EdgeLine(Name(2), Name(3), 10),
                 EdgeLine(Name(1), Name(3), 7)>>
ScenarioTwo == <<EdgeLine(Name(1), Name(2), 3)>>

\* lines that are not "CityA-CityB: <non-negative integer>"
NoSeparators == <<"A", "B", " ", "B", "A", "\n">>
NoColon == <<"A", "-", "B", " ", "1", "\n">>
NoNumber == <<"A", "-", "B", ":", " ", "\n">>
NoFirstName == <<"-", "B", ":", " ", "1", "\n">>
NoSecondName == <<"A", "-", ":", " ", "1", "\n">>
BlankLine == <<"\n">>
SignedNumber == <<"A", "-", "B", ":", " ", "-", "1", "\n">>
TrailingText == <<"A", "-", "B", ":", " ", "1", "A", "\n">>
OddLines == {NoSeparators, NoColon, NoNumber, NoFirstName, NoSecondName,
             BlankLine, SignedNumber, TrailingText}

GoodLine == EdgeLine(Name(1), Name(2), 1)
OtherGoodLine == EdgeLine(Name(2), Name(3), 1)

OddFiles == {<<l>> : l \in OddLines}
            \cup {<<GoodLine, l>> : l \in OddLines}
            \cup {<<GoodLine, OtherGoodLine, l>> : l \in OddLines}
            \cup {<<l, GoodLine>> : l \in OddLines}

\* a line longer than the buffer of fgets
RECURSIVE Repeat(_, _)
Repeat(c, n) == IF n = 0 THEN <<>> ELSE <<c>> \o Repeat(c, n - 1)
LongLineFile == <<Repeat("A", LINE_SIZE) \o <<"-">> \o Name(2) \o <<":", " ", "1", "\n">>>>

\* one city only, and a city whose only line is a loop on itself
SelfLoopFile == <<EdgeLine(Name(1), Name(1), 1)>>
IsolatedFile == <<EdgeLine(Name(1), Name(2), 1), EdgeLine(Name(3), Name(3), 1)>>

\* five cities: D is reached from B and from C, and E only from A
DeadEndFile == <<EdgeLine(Name(1), Name(2), 1), EdgeLine(Name(1), Name(3), 1),
                 EdgeLine(Name(2), Name(3), 1), EdgeLine(Name(2), Name(4), 1),
                 EdgeLine(Name(3), Name(4), 1), EdgeLine(Name(1), Name(5), 1)>>
\* five cities, every pair with cost 1
CompleteFile == GraphRows(1, 2, 5, [p \in PairsOf(5) |-> 1])

\* MAX_CITIES + 1 distinct names, two new names a line and the last line one
ChainName(k) == <<Letters[(k \div 25) + 1], Letters[((k \div 5) % 5) + 1], Letters[(k % 5) + 1]>>
ChainFile == [k \in 1..((MAX_CITIES \div 2) + 1) |->
                 IF k <= MAX_CITIES \div 2
                 THEN EdgeLine(ChainName(2 * k - 2), ChainName(2 * k - 1), 1)
                 ELSE EdgeLine(ChainName(MAX_CITIES), ChainName(0), 1)]

Files == GraphFiles \cup CompleteFiles \cup OddFiles
         \cup {<<>>, ScenarioOne, ScenarioTwo, LongLineFile, SelfLoopFile, IsolatedFile, DeadEndFile,
               CompleteFile, ChainFile}

\* ------------------------------------------------------------------- main
\* line 161-170, the file opened
Init ==
    /\ file \in Files
    /\ input = file
    /\ cities = EmptyMap
    /\ city_count = 0
    /\ di = EmptyMap
    /\ pc = "parse"
    /\ exit_code = -1
    /\ out = <<>>
    /\ err = <<>>
    /\ tables = "none"
    /\ dp = EmptyMap
    /\ next_city = EmptyMap
    /\ result = 0
    /\ current = 0
    /\ visited = 0
    /\ total_cost = 0
    /\ loops = EmptyMap
    /\ writes = EmptyMap
    /\ adds = {}
    /\ oob = {}

solverVars == <<tables, dp, next_city, result, current, visited, total_cost,
                loops, writes, adds>>

\* return code from main
Exit(code, message) ==
    /\ pc' = "done"
    /\ exit_code' = code
    /\ err' = IF message = "" THEN err ELSE Append(err, message)

\* one iteration of the while loop of line 175-211
ReadLine ==
    /\ pc = "parse"
    /\ file # <<>>
    /\ LET g == Fgets(file)
           r == Sscanf(g.line)
           i1 == get_city_index(cities, city_count, r.city1)
           cs1 == IF i1 = -1 THEN StoreCity(cities, city_count, r.city1) ELSE cities
           n1 == IF i1 = -1 THEN city_count + 1 ELSE city_count
           city1_index == IF i1 = -1 THEN city_count ELSE i1
           i2 == get_city_index(cs1, n1, r.city2)
           cs2 == IF i2 = -1 THEN StoreCity(cs1, n1, r.city2) ELSE cs1
           n2 == IF i2 = -1 THEN n1 + 1 ELSE n1
           city2_index == IF i2 = -1 THEN n1 ELSE i2
           \* stores past the end of cities[MAX_CITIES] and di[MAX_CITIES][MAX_CITIES]
           past == {[array |-> "cities", index |-> k] :
                       k \in {x \in {city1_index, city2_index} :
                                 x >= city_count /\ x >= MAX_CITIES}}
                   \cup {[array |-> "di", index |-> k] :
                       k \in {x \in {city1_index, city2_index} : x >= MAX_CITIES}}
       IN
       /\ file' = g.rest
       /\ IF r.count # 3
          THEN /\ Exit(1, "Error reading file")
               /\ UNCHANGED <<cities, city_count, di, oob>>
          ELSE IF Len(r.city1) >= NAME_WIDTH + 1 \/ Len(r.city2) >= NAME_WIDTH + 1
          THEN /\ Exit(1, "Error: City name exceeds the maximum allowed length of 511 characters.")
               /\ UNCHANGED <<cities, city_count, di, oob>>
          ELSE IF past = {}
          THEN /\ cities' = cs2
               /\ city_count' = n2
               /\ di' = SetEdge(di, city1_index, city2_index, r.distance)
               /\ UNCHANGED <<pc, exit_code, err, oob>>
          ELSE \* a store outside an array is undefined: it lands in memory
               \* the program does not use and the run goes on, or it faults
               /\ oob' = oob \cup past
               /\ \/ /\ cities' = cs2
                     /\ city_count' = n2
                     /\ di' = SetEdge(di, city1_index, city2_index, r.distance)
                     /\ UNCHANGED <<pc, exit_code, err>>
                  \/ /\ Exit(139, "")
                     /\ UNCHANGED <<cities, city_count, di>>
    /\ UNCHANGED <<input, out>>
    /\ UNCHANGED solverVars

\* line 213-229: the end of the file, the two checks, the call of solve_tsp
EndOfFile ==
    /\ pc = "parse"
    /\ file = <<>>
    /\ IF city_count > MAX_CITIES
       THEN Exit(1, "Error: Too many cities (maximum is 64).")
       ELSE IF city_count = 0
       THEN Exit(1, "Error: The input file is empty or contains no valid data.")
       ELSE /\ pc' = "solve"
            /\ UNCHANGED <<exit_code, err>>
    /\ UNCHANGED <<file, input, cities, city_count, di, out, oob>>
    /\ UNCHANGED solverVars

\* solve_tsp, line 91-121: the tables, the root call, the first line printed
SolveTsp ==
    /\ pc = "solve"
    /\ LET r == tsp_dp(0, 1, city_count, di, FreshTables) IN
       /\ result' = r.ret
       /\ dp' = r.t.dp
       /\ next_city' = r.t.next_city
       /\ loops' = r.t.loops
       /\ writes' = r.t.writes
       /\ adds' = r.t.adds
       /\ IF r.ret = NO_PATH
          THEN /\ out' = Append(out, [kind |-> "infeasible"])
               /\ pc' = "free"
               /\ UNCHANGED <<current, visited, total_cost>>
          ELSE /\ out' = Append(out, [kind |-> "header"])
               /\ pc' = "walk"
               /\ current' = 0
               /\ visited' = 1
               /\ total_cost' = 0
    /\ tables' = "allocated"
    /\ UNCHANGED <<file, input, cities, city_count, di, exit_code, err, oob>>

\* one iteration of the while loop of line 123-134 that prints an edge
WalkStep ==
    /\ pc = "walk"
    /\ LET next == NextCity(next_city, current, visited) IN
       /\ next # -1
       /\ out' = Append(out, [kind |-> "edge", from |-> cities[current],
                              cost |-> Di(di, current, next), to |-> cities[next]])
       /\ total_cost' = U64Add(total_cost, Di(di, current, next))
       /\ visited' = SetBit(visited, next)
       /\ current' = next
    /\ UNCHANGED <<file, input, cities, city_count, di, pc, exit_code, err, oob,
                   tables, dp, next_city, result, loops, writes, adds>>

\* the break of line 125-127 and the total of line 136
WalkBreak ==
    /\ pc = "walk"
    /\ NextCity(next_city, current, visited) = -1
    /\ out' = Append(out, [kind |-> "total", cost |-> total_cost])
    /\ pc' = "free"
    /\ UNCHANGED <<file, input, cities, city_count, di, exit_code, err, oob,
                   tables, dp, next_city, result, current, visited, total_cost,
                   loops, writes, adds>>

\* line 140-146 and 231-235
FreeAndReturn ==
    /\ pc = "free"
    /\ tables' = "freed"
    /\ pc' = "done"
    /\ exit_code' = 0
    /\ UNCHANGED <<file, input, cities, city_count, di, out, err, oob,
                   dp, next_city, result, current, visited, total_cost,
                   loops, writes, adds>>

Next == ReadLine \/ EndOfFile \/ SolveTsp \/ WalkStep \/ WalkBreak \/ FreeAndReturn

Spec == Init /\ [][Next]_vars

\* =================================================================== claims
\* what the claims speak of, stated without the solver

\* the orderings of the locations other than 0
Orderings == {f \in [1..(city_count - 1) -> 1..(city_count - 1)] :
                 \A a, b \in 1..(city_count - 1) : a # b => f[a] # f[b]}

\* the k-th location of the path that starts at 0 and follows the ordering f
Stop(f, k) == IF k = 0 THEN 0 ELSE f[k]

\* every consecutive pair of the path has a real edge
Connected(f) == \A k \in 1..(city_count - 1) : Di(di, Stop(f, k - 1), Stop(f, k)) # NO_PATH

RECURSIVE CostUpTo(_, _)
CostUpTo(f, k) == IF k = 0 THEN 0 ELSE CostUpTo(f, k - 1) + Di(di, Stop(f, k - 1), Stop(f, k))

HamiltonianPaths == {f \in Orderings : Connected(f)}

MinimumCost == CHOOSE c \in {CostUpTo(f, city_count - 1) : f \in HamiltonianPaths} :
                  \A f \in HamiltonianPaths : c <= CostUpTo(f, city_count - 1)

Solved == tables # "none"

EdgesOf(o) == SelectSeq(o, LAMBDA l : l.kind = "edge")

RECURSIVE SumOfCosts(_)
SumOfCosts(e) == IF e = <<>> THEN 0 ELSE Head(e).cost + SumOfCosts(Tail(e))

RECURSIVE PopCount(_)
PopCount(mask) == IF mask = 0 THEN 0 ELSE (mask % 2) + PopCount(mask \div 2)

\* C1: whenever a Hamiltonian path from location 0 exists, the root call
\* returns the minimum over all connected orderings of the summed edge costs
C1_RootIsMinimum ==
    (Solved /\ HamiltonianPaths # {}) => result = MinimumCost

\* C2: whenever no Hamiltonian path from location 0 exists, the root call
\* returns NO_PATH and the report is the infeasibility message alone
C2_InfeasibleReported ==
    (Solved /\ HamiltonianPaths = {}) =>
        (result = NO_PATH /\ out = <<[kind |-> "infeasible"]>>)

\* C3: when the root call returned a cost, the total printed is the sum of the
\* costs of the edges printed and equals the value of the root call
C3_SumLaw ==
    (pc = "done" /\ exit_code = 0 /\ result # NO_PATH) =>
        /\ out[Len(out)].kind = "total"
        /\ out[Len(out)].cost = SumOfCosts(EdgesOf(out))
        /\ out[Len(out)].cost = result

\* C4: the walk reads "none" from the choice table only at the full mask, so
\* the itinerary has exactly N-1 edges
C4_WalkCompletes ==
    /\ (pc = "walk" /\ NextCity(next_city, current, visited) = -1) =>
           visited = FullMask(city_count)
    /\ (pc = "done" /\ exit_code = 0 /\ result # NO_PATH) =>
           Len(EdgesOf(out)) = city_count - 1

\* C5: during the root call the candidate loop of a state runs at most once
\* and its memo entry is written at most once, dead ends included
C5_ComputedOnce ==
    /\ \A s \in DOMAIN loops : loops[s] <= 1
    /\ \A s \in DOMAIN writes : writes[s] <= 1

\* the distinct names of the lines read so far
NamesRead ==
    LET read == {input[k] : k \in 1..(Len(input) - Len(file))}
    IN {Sscanf(l).city1 : l \in read} \cup {Sscanf(l).city2 : l \in read}

\* C6: a name is stored only at an index below 64, and a run that met a 65th
\* distinct name ends with exit code 1 without solving
C6_RegistryCapacity ==
    /\ oob = {}
    /\ \A i \in DOMAIN cities : i < MAX_CITIES
    /\ (pc = "done" /\ Cardinality(NamesRead) > MAX_CITIES) =>
           (exit_code = 1 /\ ~Solved)

\* the edge syntax "CityA-CityB: <non-negative integer>": a name without '-'
\* or ':', a '-', a name without ':', a ':', blanks, digits, the end of line
MatchesEdgeSyntax(l) ==
    \E i, j, k \in 1..Len(l) :
        /\ 1 < i /\ i + 1 < j /\ j < k
        /\ l[i] = "-" /\ l[j] = ":"
        /\ \A x \in 1..(i - 1) : l[x] \notin {"-", ":"}
        /\ \A x \in (i + 1)..(j - 1) : l[x] # ":"
        /\ \A x \in (j + 1)..(k - 1) : l[x] = " "
        /\ IsDigit(l[k])
        /\ \A x \in k..Len(l) : IsDigit(l[x]) \/ (x = Len(l) /\ l[x] = "\n")

\* C7: a file with a line that fails the edge syntax ends with exit code 1
\* before the solver runs, with nothing written to the report
C7_MalformedLineAborts ==
    (pc = "done" /\ \E k \in 1..Len(input) : ~MatchesEdgeSyntax(input[k])) =>
        (exit_code = 1 /\ ~Solved /\ out = <<>>)

\* C8: NO_PATH is never the sub-result operand of the addition in solve
C8_SentinelNeverAdded ==
    \A a \in adds : a.sub # NO_PATH

\* the value solve returns for a state once the root call has returned
Solve(c, v) == IF v = FullMask(city_count) THEN 0 ELSE Dp(dp, c, v)

CandidateCost(c, v, n) == U64Add(Di(di, c, n), Solve(n, SetBit(v, n)))

Candidates(c, v) == {n \in 0..(city_count - 1) : ~HasBit(v, n) /\ Di(di, c, n) # NO_PATH}

Reaching(c, v) == {n \in Candidates(c, v) : CandidateCost(c, v, n) = dp[<<c, v>>]}

Least(S) == CHOOSE n \in S : \A m \in S : n <= m

Arrivals == {get_city_index(cities, city_count, EdgesOf(out)[k].to) :
                k \in 1..Len(EdgesOf(out))}

\* C10: the location the walk reads is unvisited and joined to current by a
\* real edge, visited grows by one location an edge, no location is printed
\* twice, and at most N-1 edges are printed
C10_WalkTerminates ==
    /\ pc = "walk" =>
          LET next == NextCity(next_city, current, visited) IN
          next # -1 => /\ next \in 0..(city_count - 1)
                       /\ ~HasBit(visited, next)
                       /\ Di(di, current, next) # NO_PATH
    /\ pc \in {"walk", "free", "done"} /\ result # NO_PATH /\ Solved =>
          /\ PopCount(visited) = Len(EdgesOf(out)) + 1
          /\ Cardinality(Arrivals) = Len(EdgesOf(out))
          /\ 0 \notin Arrivals
          /\ \A k \in 1..Len(EdgesOf(out)) : EdgesOf(out)[k].cost # NO_PATH
    /\ Len(EdgesOf(out)) <= IF city_count = 0 THEN 0 ELSE city_count - 1

C10_Witness ==
    /\ pc = "done" /\ exit_code = 0 /\ result # NO_PATH
    /\ city_count >= 3
    /\ Len(EdgesOf(out)) = city_count - 1

====
